---------------------------- MODULE Spec2Model ----------------------------
(***************************************************************************)
(* Model of git_validator.py: TitleComplianceChecker, LinkExtractor and    *)
(* GitComplianceService.                                                   *)
(*                                                                         *)
(* A Python str is modelled as a sequence of one-character strings, so     *)
(* "fix:" is <<"f","i","x",":">>.  An Optional value is modelled as a set   *)
(* with at most one element: None is {} and a present value v is {v}.      *)
(* A list of messages is a sequence; each message is itself a sequence of  *)
(* string pieces (the fixed text of the f-string and, between the pieces,  *)
(* the characters interpolated into it).                                   *)
(***************************************************************************)
EXTENDS Integers, Sequences, FiniteSets, TLC

(***************************************************************************)
(* Optional values.                                                        *)
(***************************************************************************)
\* LET v == value IN In(v), with the value named once.
Bind(value, In(_)) == In(value)

None == {}
Some(v) == {v}
IsNone(o) == o = {}
IsSome(o) == o # {}
The(o) == CHOOSE v \in o : TRUE

(***************************************************************************)
(* Characters.  The classes are those of Python's re for str patterns,     *)
(* restricted to ASCII (the inputs of this model are ASCII).               *)
(***************************************************************************)
LowerLetters == <<"a","b","c","d","e","f","g","h","i","j","k","l","m",
                  "n","o","p","q","r","s","t","u","v","w","x","y","z">>
UpperLetters == <<"A","B","C","D","E","F","G","H","I","J","K","L","M",
                  "N","O","P","Q","R","S","T","U","V","W","X","Y","Z">>
Lower == {LowerLetters[i] : i \in DOMAIN LowerLetters}
Upper == {UpperLetters[i] : i \in DOMAIN UpperLetters}
Digit == {"0","1","2","3","4","5","6","7","8","9"}
\* The characters the model's strings are made of are ASCII. The five
\* whitespace characters that have no escape in a string are written raw:
\* \x0b (vertical tab), \x1c, \x1d, \x1e, \x1f (the four separators).
VT == ""
FS == ""
GS == ""
RS == ""
US == ""
\* What \s and str.strip() treat as whitespace among them.
Whitespace == {" ", "\t", "\n", VT, "\f", "\r", FS, GS, RS, US}

\* What indexing past either end of a string yields here: no character.
EOS == ""
At(s, i) == IF i \in 1..Len(s) THEN s[i] ELSE EOS

\* str.lower() on one character, and on a string.
LowerChar(c) ==
  IF c \in Upper
    THEN LowerLetters[CHOOSE i \in DOMAIN UpperLetters : UpperLetters[i] = c]
    ELSE c
LowerStr(s) == [i \in 1..Len(s) |-> LowerChar(s[i])]

\* \s
IsSpace(c) == c \in Whitespace
\* [^\s]
IsNonSpace(c) == c # EOS /\ c \notin Whitespace
\* [a-z] matched without re.IGNORECASE: a slip that C7 excludes.
IsAlphaI_CaseSensitive(c) == c \in Lower
\* [a-z] under re.IGNORECASE
IsAlphaI(c) == c \in Lower \cup Upper
\* [A-Z0-9] matched without re.IGNORECASE: a slip that C8 excludes.
IsProjectCharI_CaseSensitive(c) == c \in Upper \cup Digit
\* [A-Z0-9] under re.IGNORECASE
IsProjectCharI(c) == c \in Upper \cup Lower \cup Digit
\* \d
IsDigit(c) == c \in Digit
\* . (without re.DOTALL)
IsDot(c) == c # EOS /\ c # "\n"

\* The end of the greedy run X+ (or X*) started at position i: the last
\* position j >= i-1 such that s[i..j] are all in the class.
RunEnd(s, i, InClass(_)) ==
  CHOOSE j \in (i-1)..Len(s) :
    /\ ~InClass(At(s, j+1))
    /\ \A k \in i..j : InClass(s[k])

\* A literal of the pattern at position i, compared as re.IGNORECASE does.
LitAtI(s, i, lit) == \A k \in 1..Len(lit) : LowerChar(At(s, i+k-1)) = LowerChar(lit[k])
\* A literal at position i, compared exactly.
LitAt(s, i, lit) == \A k \in 1..Len(lit) : At(s, i+k-1) = lit[k]
\* Python's "sub in s".
Contains(s, sub) == \E i \in 1..(Len(s)+1) : LitAt(s, i, sub)

\* str.strip().
Strip(s) ==
  IF \A i \in 1..Len(s) : IsSpace(s[i]) THEN <<>>
  ELSE LET lo == CHOOSE i \in 1..Len(s) :
                   ~IsSpace(s[i]) /\ \A j \in 1..(i-1) : IsSpace(s[j])
           hi == CHOOSE i \in 1..Len(s) :
                   ~IsSpace(s[i]) /\ \A j \in (i+1)..Len(s) : IsSpace(s[j])
       IN  SubSeq(s, lo, hi)


(***************************************************************************)
(* TitleComplianceChecker                                                  *)
(***************************************************************************)
Str_feat == <<"f","e","a","t">>
Str_fix == <<"f","i","x">>
Str_docs == <<"d","o","c","s">>
Str_style == <<"s","t","y","l","e">>
Str_refactor == <<"r","e","f","a","c","t","o","r">>
Str_perf == <<"p","e","r","f">>
Str_test == <<"t","e","s","t">>
Str_chore == <<"c","h","o","r","e">>
Str_build == <<"b","u","i","l","d">>
Str_ci == <<"c","i">>
Str_revert == <<"r","e","v","e","r","t">>
Str_Taiga == <<"T","a","i","g","a">>
Str_taiga == <<"t","a","i","g","a">>

VALID_TYPES == <<Str_feat, Str_fix, Str_docs, Str_style, Str_refactor, Str_perf,
                 Str_test, Str_chore, Str_build, Str_ci, Str_revert>>

\* Python's "x in VALID_TYPES".
InValidTypes(x) == \E i \in DOMAIN VALID_TYPES : VALID_TYPES[i] = x

MinSummaryLen == 10
MaxSummaryLen == 100

\* The reference with [A-Z0-9]* and \d* in place of [A-Z0-9]+ and \d+, so
\* that an empty project or ticket matches: a slip that C9 excludes.
TaigaRefAt_EmptySegments(s, q) ==
  IF ~(At(s, q) = "(" /\ LitAtI(s, q+1, Str_Taiga)) THEN None
  ELSE Bind(RunEnd(s, q+6, IsSpace), LAMBDA w :
    IF ~(w >= q+6 /\ At(s, w+1) = "#") THEN None
    ELSE Bind(RunEnd(s, w+2, IsProjectCharI), LAMBDA p :
      IF ~(At(s, p+1) = "-") THEN None
      ELSE Bind(RunEnd(s, p+2, IsDigit), LAMBDA d :
        IF ~(At(s, d+1) = ")") THEN None
        ELSE Some([project |-> SubSeq(s, w+2, p),
                   ticket  |-> SubSeq(s, p+2, d),
                   end     |-> d+1]))))

\* The fragment \(Taiga\s+#(?P<project>[A-Z0-9]+)-(?P<ticket>\d+)\) under
\* re.IGNORECASE, started at position q.  Every quantifier in it is followed
\* by a character outside its class, so only the longest run can succeed.
\* Some([project, ticket, end]) with end the position of ")", or None.
TaigaRefAt(s, q) ==
  IF ~(At(s, q) = "(" /\ LitAtI(s, q+1, Str_Taiga)) THEN None
  ELSE Bind(RunEnd(s, q+6, IsSpace), LAMBDA w :
    IF ~(w >= q+6 /\ At(s, w+1) = "#") THEN None
    ELSE Bind(RunEnd(s, w+2, IsProjectCharI), LAMBDA p :
      IF ~(p >= w+2 /\ At(s, p+1) = "-") THEN None
      ELSE Bind(RunEnd(s, p+2, IsDigit), LAMBDA d :
        IF ~(d >= p+2 /\ At(s, d+1) = ")") THEN None
        ELSE Some([project |-> SubSeq(s, w+2, p),
                   ticket  |-> SubSeq(s, p+2, d),
                   end     |-> d+1]))))

\* The pattern without its closing $: a slip that C4 excludes.
DollarAt_Anywhere(s, i) == TRUE

\* Where $ matches (no re.MULTILINE): after the last character, and before
\* a newline that is the last character.
DollarAt(s, i) == i = Len(s) + 1 \/ (i = Len(s) /\ s[i] = "\n")

\* The rest of the pattern matched without regard to where it ends, so
\* that the first reference ends the summary: a slip that C19 excludes.
TitleTailAt_Unanchored(s, p) ==
  Bind(RunEnd(s, p, IsSpace), LAMBDA w2 :
    IF w2 < p THEN None ELSE TaigaRefAt(s, w2+1))

\* The rest of TITLE_PATTERN after the summary, started at position p:
\*   \s+\(Taiga\s+#(?P<project>[A-Z0-9]+)-(?P<ticket>\d+)\)$
\* The \s+ must stop at "(".  Some([project, ticket, end]) or None.
TitleTailAt(s, p) ==
  Bind(RunEnd(s, p, IsSpace), LAMBDA w2 :
    IF w2 < p THEN None
    ELSE Bind(TaigaRefAt(s, w2+1), LAMBDA ref :
      IF IsSome(ref) /\ DollarAt(s, The(ref).end + 1) THEN ref ELSE None))

\* The ways TITLE_PATTERN can split a title whose type token ends at n:
\* <<a, p>> when the first \s+ is s[n+2..a-1], the summary is s[a..p-1]
\* (one or more characters, none a newline) and the rest matches at p.
SummarySplits(s, n) ==
  {c \in ((n+3)..(RunEnd(s, n+2, IsSpace)+1)) \X {p \in (n+4)..Len(s) : IsSpace(s[p])} :
     /\ c[2] > c[1]
     /\ \A k \in c[1]..(c[2]-1) : IsDot(s[k])
     /\ IsSome(TitleTailAt(s, c[2]))}

\* The split the backtracking matcher finds first: the first \s+ is greedy
\* (longest first), the summary .+? is lazy (shortest first).
FirstSplit(splits) ==
  CHOOSE c \in splits : \A o \in splits :
    \/ c[1] > o[1]
    \/ (c[1] = o[1] /\ c[2] <= o[2])

\* TITLE_PATTERN.match(title): Some(groupdict) of the match, or None.
\*   ^(?P<type>[a-z]+):\s+(?P<summary>.+?)\s+\(Taiga ... \)$
\* [a-z]+ must stop at ":".
TITLE_PATTERN_match(s) ==
  Bind(RunEnd(s, 1, IsAlphaI), LAMBDA n :
    IF ~(n >= 1 /\ At(s, n+1) = ":") THEN None
    ELSE Bind(SummarySplits(s, n), LAMBDA splits :
      IF splits = {} THEN None
      ELSE Bind(FirstSplit(splits), LAMBDA first :
        Bind(The(TitleTailAt(s, first[2])), LAMBDA ref :
          Some([type    |-> SubSeq(s, 1, n),
                summary |-> SubSeq(s, first[1], first[2]-1),
                project |-> ref.project,
                ticket  |-> ref.ticket])))))

COMPLIANT == "compliant"
NON_COMPLIANT == "non_compliant"

ComplianceResult(status, is_valid, errors, suggestions, parsed_data) ==
  [status |-> status, is_valid |-> is_valid, errors |-> errors,
   suggestions |-> suggestions, parsed_data |-> parsed_data]

\* The messages of check_compliance.
ErrEmptyTitle == <<"Title tidak boleh kosong">>
SugFormat == <<"Gunakan format: <tipe>: <ringkasan singkat> (Taiga #<NamaProject>-<NomorTicket>)">>
ErrInvalidCommitType(t) == <<"Tipe commit '">> \o t \o <<"' tidak valid">>
SugValidTypes == <<"Gunakan salah satu tipe: feat, fix, docs, style, refactor, perf, test, chore, build, ci, revert">>
ErrSummaryTooShort == <<"Ringkasan terlalu pendek (minimal 10 karakter)">>
SugSummaryTooShort == <<"Berikan deskripsi yang lebih detail tentang perubahan">>
ErrSummaryTooLong == <<"Ringkasan terlalu panjang (maksimal 100 karakter)">>
SugSummaryTooLong == <<"Ringkas deskripsi menjadi lebih singkat dan jelas">>

\* The messages of _analyze_errors.
ErrNoTypePrefix == <<"Format tipe tidak ditemukan di awal title">>
SugNoTypePrefix == <<"Mulai title dengan '<tipe>:' (contoh: feat:, fix:, docs:)">>
ErrInvalidType(t) == <<"Tipe '">> \o t \o <<"' tidak valid">>
ErrNoSpaceAfterColon == <<"Tidak ada spasi setelah tanda titik dua (:)">>
SugNoSpaceAfterColon == <<"Tambahkan spasi setelah ':' (contoh: 'feat: ' bukan 'feat:')">>
ErrTaigaNotFound == <<"Referensi Taiga tidak ditemukan">>
SugTaigaNotFound == <<"Tambahkan '(Taiga #<NamaProject>-<NomorTicket>)' di akhir title">>
ErrTaigaFormat == <<"Format referensi Taiga tidak sesuai">>
SugTaigaFormat == <<"Gunakan format: (Taiga #<NamaProject>-<NomorTicket>), contoh: (Taiga #DATB-123)">>
ErrGeneric == <<"Format title tidak sesuai dengan standar">>
SugGenericFormat == <<"Format yang benar: <tipe>: <ringkasan singkat> (Taiga #<NamaProject>-<NomorTicket>)">>
SugGenericExample == <<"Contoh: feat: Tambah fitur login (Taiga #DATB-123)">>

\* re.match(r'^[a-z]+:', title, re.IGNORECASE): the end of the type token,
\* or 0 when the title does not start with one.
TypePrefixEnd(s) ==
  Bind(RunEnd(s, 1, IsAlphaI), LAMBDA n :
    IF n >= 1 /\ At(s, n+1) = ":" THEN n ELSE 0)

\* The first ":" looked for anywhere in the title, as ^[^:]*:[^\s] would:
\* a slip that C18 excludes.
NoSpaceAfterColon_AnyPrefix(s) ==
  \E c \in 1..Len(s) :
    /\ s[c] = ":"
    /\ \A j \in 1..(c-1) : s[j] # ":"
    /\ IsNonSpace(At(s, c+1))

\* re.match(r'^[a-z]+:[^\s]', title, re.IGNORECASE)
NoSpaceAfterColon(s) ==
  Bind(RunEnd(s, 1, IsAlphaI), LAMBDA n :
    n >= 1 /\ At(s, n+1) = ":" /\ IsNonSpace(At(s, n+2)))

\* 'Taiga' not in title and 'taiga' not in title.lower()
TaigaAbsent(s) == ~Contains(s, Str_Taiga) /\ ~Contains(LowerStr(s), Str_taiga)

\* re.search(r'\(Taiga\s+#[A-Z0-9]+-\d+\)', title, re.IGNORECASE)
TaigaRefSearch(s) == \E q \in 1..Len(s) : IsSome(TaigaRefAt(s, q))

\* What one probe of _analyze_errors appends: <<errors, suggestions>>.
NoDiagnostic == << <<>>, <<>> >>
\* An error appended without its suggestion: a slip that C2 excludes.
Diagnostic_NoSuggestion(error, suggestion) == << <<error>>, <<>> >>
Diagnostic(error, suggestion) == << <<error>>, <<suggestion>> >>

\* The type probe: no type prefix, else a type outside VALID_TYPES.
TypeDiagnostic(s) ==
  Bind(TypePrefixEnd(s), LAMBDA n :
    IF n = 0 THEN Diagnostic(ErrNoTypePrefix, SugNoTypePrefix)
    ELSE Bind(LowerStr(SubSeq(s, 1, n)), LAMBDA used_type :
      IF ~InValidTypes(used_type)
        THEN Diagnostic(ErrInvalidType(used_type), SugValidTypes)
        ELSE NoDiagnostic))

\* The probe for the space after the colon.
SpaceDiagnostic(s) ==
  IF NoSpaceAfterColon(s)
    THEN Diagnostic(ErrNoSpaceAfterColon, SugNoSpaceAfterColon)
    ELSE NoDiagnostic

\* The Taiga probe: no reference, else no well-formed one.
TaigaDiagnostic(s) ==
  IF TaigaAbsent(s) THEN Diagnostic(ErrTaigaNotFound, SugTaigaNotFound)
  ELSE IF ~TaigaRefSearch(s) THEN Diagnostic(ErrTaigaFormat, SugTaigaFormat)
  ELSE NoDiagnostic

\* The probes taken as a decision tree, where the first that fires is the
\* only one reported: a slip that C17 excludes.
AnalyzeErrors_FirstOnly(s) ==
  Bind(<<TypeDiagnostic(s), SpaceDiagnostic(s), TaigaDiagnostic(s)>>, LAMBDA d :
    IF d[1][1] # <<>> THEN d[1]
    ELSE IF d[2][1] # <<>> THEN d[2]
    ELSE IF d[3][1] # <<>> THEN d[3]
    ELSE << <<ErrGeneric>>, <<SugGenericFormat, SugGenericExample>> >>)

\* _analyze_errors(title): <<errors, suggestions>>.
AnalyzeErrors(s) ==
  Bind(<<TypeDiagnostic(s), SpaceDiagnostic(s), TaigaDiagnostic(s)>>, LAMBDA d :
    IF d[1][1] \o d[2][1] \o d[3][1] = <<>>
      THEN << <<ErrGeneric>>, <<SugGenericFormat, SugGenericExample>> >>
      ELSE << d[1][1] \o d[2][1] \o d[3][1], d[1][2] \o d[2][2] \o d[3][2] >>)

\* The length limits compared with <= and >=, so that 10 and 100 are
\* rejected: a slip that C1 excludes.
SummaryLengthCheck_OffByOne(summary) ==
  Bind(Len(Strip(summary)), LAMBDA len :
    << (IF len <= MinSummaryLen THEN <<ErrSummaryTooShort>> ELSE <<>>)
         \o (IF len >= MaxSummaryLen THEN <<ErrSummaryTooLong>> ELSE <<>>),
       (IF len <= MinSummaryLen THEN <<SugSummaryTooShort>> ELSE <<>>)
         \o (IF len >= MaxSummaryLen THEN <<SugSummaryTooLong>> ELSE <<>>) >>)

\* The summary length check of check_compliance: <<errors, suggestions>>.
SummaryLengthCheck(summary) ==
  Bind(Len(Strip(summary)), LAMBDA len :
    << (IF len < MinSummaryLen THEN <<ErrSummaryTooShort>> ELSE <<>>)
         \o (IF len > MaxSummaryLen THEN <<ErrSummaryTooLong>> ELSE <<>>),
       (IF len < MinSummaryLen THEN <<SugSummaryTooShort>> ELSE <<>>)
         \o (IF len > MaxSummaryLen THEN <<SugSummaryTooLong>> ELSE <<>>) >>)

\* Whether the structurally matched type passes the VALID_TYPES check.
TypeRecognized(type) == InValidTypes(LowerStr(type))

\* The parsed fields returned only with a COMPLIANT outcome: a slip that C3
\* excludes.
CheckParsed_FieldsOnlyWhenValid(parsed_data) ==
  IF ~TypeRecognized(parsed_data.type)
    THEN ComplianceResult(NON_COMPLIANT, FALSE,
                          <<ErrInvalidCommitType(LowerStr(parsed_data.type))>>,
                          <<SugValidTypes>>, None)
  ELSE Bind(SummaryLengthCheck(parsed_data.summary), LAMBDA c :
    IF c[1] # <<>>
      THEN ComplianceResult(NON_COMPLIANT, FALSE, c[1], c[2], None)
      ELSE ComplianceResult(COMPLIANT, TRUE, <<>>, <<>>, Some(parsed_data)))

\* The summary length checked also after an invalid type: a slip that C5
\* excludes.
CheckParsed_LengthAfterBadType(parsed_data) ==
  Bind(SummaryLengthCheck(parsed_data.summary), LAMBDA c :
    IF ~TypeRecognized(parsed_data.type)
      THEN ComplianceResult(NON_COMPLIANT, FALSE,
             <<ErrInvalidCommitType(LowerStr(parsed_data.type))>> \o c[1],
             <<SugValidTypes>> \o c[2], Some(parsed_data))
    ELSE IF c[1] # <<>>
      THEN ComplianceResult(NON_COMPLIANT, FALSE, c[1], c[2], Some(parsed_data))
      ELSE ComplianceResult(COMPLIANT, TRUE, <<>>, <<>>, Some(parsed_data)))

\* check_compliance once the title matched: the type and length checks.
CheckParsed(parsed_data) ==
  IF ~TypeRecognized(parsed_data.type)
    THEN ComplianceResult(NON_COMPLIANT, FALSE,
                          <<ErrInvalidCommitType(LowerStr(parsed_data.type))>>,
                          <<SugValidTypes>>, Some(parsed_data))
  ELSE Bind(SummaryLengthCheck(parsed_data.summary), LAMBDA c :
    IF c[1] # <<>>
      THEN ComplianceResult(NON_COMPLIANT, FALSE, c[1], c[2], Some(parsed_data))
      ELSE ComplianceResult(COMPLIANT, TRUE, <<>>, <<>>, Some(parsed_data)))

\* check_compliance of a title that is not blank, stripped.
CheckStripped(t) ==
  Bind(TITLE_PATTERN_match(t), LAMBDA match :
    IF IsNone(match)
      THEN Bind(AnalyzeErrors(t), LAMBDA a :
             ComplianceResult(NON_COMPLIANT, FALSE, a[1], a[2], None))
      ELSE CheckParsed(The(match)))

\* The emptiness test without title.strip(): a slip that C6 excludes.
check_compliance_EmptyOnly(title) ==
  IF title = <<>>
    THEN ComplianceResult(NON_COMPLIANT, FALSE, <<ErrEmptyTitle>>, <<SugFormat>>, None)
    ELSE CheckStripped(Strip(title))

\* check_compliance(title)
check_compliance(title) ==
  IF title = <<>> \/ Strip(title) = <<>>
    THEN ComplianceResult(NON_COMPLIANT, FALSE, <<ErrEmptyTitle>>, <<SugFormat>>, None)
    ELSE CheckStripped(Strip(title))

(***************************************************************************)
(* LinkExtractor                                                           *)
(***************************************************************************)
Str_Ticket == <<"T","i","c","k","e","t">>
Str_Documentation == <<"D","o","c","u","m","e","n","t","a","t","i","o","n">>
Str_Testing == <<"T","e","s","t","i","n","g">>
Str_LinkColon == <<"L","i","n","k",":">>
Str_http == <<"h","t","t","p">>
Str_SchemeSep == <<":","/","/">>

ExtractedLinks(ticket_link, documentation_link, testing_link) ==
  [ticket_link |-> ticket_link, documentation_link |-> documentation_link,
   testing_link |-> testing_link]

\* A URL that runs on over ")": a slip that C16 excludes.
IsUrlChar_ParenKept(c) == c # EOS /\ c \notin Whitespace
\* [^\]] and [^\)] and [^\s\)]
IsNotCloseBracket(c) == c # EOS /\ c # "]"
IsNotCloseParen(c) == c # EOS /\ c # ")"
IsUrlChar(c) == c # EOS /\ c \notin Whitespace /\ c # ")"

\* <label>\s+Link:\s* under re.IGNORECASE at position i: the position after
\* it, or 0.  Both runs are followed by a non-space, so only the longest
\* run can succeed.
LabelAt(s, i, label) ==
  IF ~LitAtI(s, i, label) THEN 0
  ELSE Bind(RunEnd(s, i + Len(label), IsSpace), LAMBDA w :
    IF ~(w >= i + Len(label) /\ LitAtI(s, w+1, Str_LinkColon)) THEN 0
    ELSE RunEnd(s, w + 1 + Len(Str_LinkColon), IsSpace) + 1)

\* https?:// under re.IGNORECASE at position i: the position after it, or 0.
SchemeAtI(s, i) ==
  IF ~LitAtI(s, i, Str_http) THEN 0
  ELSE IF LowerChar(At(s, i+4)) = "s"
    THEN (IF LitAt(s, i+5, Str_SchemeSep) THEN i+8 ELSE 0)
    ELSE (IF LitAt(s, i+4, Str_SchemeSep) THEN i+7 ELSE 0)

\* <label>\s+Link:\s*\[(?:[^\]]+)\]\((?P<url>https?://[^\)]+)\) at position
\* i: Some(url) or None.
MarkdownLinkAt(s, i, label) ==
  Bind(LabelAt(s, i, label), LAMBDA b :
    IF ~(b > 0 /\ At(s, b) = "[") THEN None
    ELSE Bind(RunEnd(s, b+1, IsNotCloseBracket), LAMBDA c :
      IF ~(c >= b+1 /\ At(s, c+1) = "]" /\ At(s, c+2) = "(") THEN None
      ELSE Bind(SchemeAtI(s, c+3), LAMBDA u :
        IF u = 0 THEN None
        ELSE Bind(RunEnd(s, u, IsNotCloseParen), LAMBDA e :
          IF ~(e >= u /\ At(s, e+1) = ")") THEN None
          ELSE Some(SubSeq(s, c+3, e))))))

\* Any bracket content taken as the testing link: a slip that C13 excludes.
BracketLinkAt_AnyContent(s, i, label) ==
  Bind(LabelAt(s, i, label), LAMBDA b :
    IF ~(b > 0 /\ At(s, b) = "[") THEN None
    ELSE Bind(RunEnd(s, b+1, IsNotCloseBracket), LAMBDA e :
      IF ~(e >= b+1 /\ At(s, e+1) = "]") THEN None
      ELSE Some(SubSeq(s, b+1, e))))

\* Testing\s+Link:\s*\[(?P<url>https?://[^\]]+)\] at position i.
BracketLinkAt(s, i, label) ==
  Bind(LabelAt(s, i, label), LAMBDA b :
    IF ~(b > 0 /\ At(s, b) = "[") THEN None
    ELSE Bind(SchemeAtI(s, b+1), LAMBDA u :
      IF u = 0 THEN None
      ELSE Bind(RunEnd(s, u, IsNotCloseBracket), LAMBDA e :
        IF ~(e >= u /\ At(s, e+1) = "]") THEN None
        ELSE Some(SubSeq(s, b+1, e)))))

\* The last match in place of the first: a slip that C11 excludes.
Leftmost_Last(hits) == CHOOSE h \in hits : \A o \in hits : h >= o
\* The least element of a non-empty set of positions.
Leftmost(hits) == CHOOSE h \in hits : \A o \in hits : h <= o

\* pattern.search(description): the match at the leftmost position that has
\* one, with group('url').strip() applied; None when there is no match.
SearchLink(s, label, LinkAt(_, _, _)) ==
  Bind({i \in 1..Len(s) : IsSome(LinkAt(s, i, label))}, LAMBDA hits :
    IF hits = {} THEN None
    ELSE Some(Strip(The(LinkAt(s, Leftmost(hits), label)))))

\* Python's truth value of an Optional[str]: neither None nor "".
Truthy(o) == IsSome(o) /\ The(o) # <<>>

\* The three searches of extract_links on a description that is not empty.
ExtractFrom(s) ==
  ExtractedLinks(SearchLink(s, Str_Ticket, MarkdownLinkAt),
                 SearchLink(s, Str_Documentation, MarkdownLinkAt),
                 SearchLink(s, Str_Testing, BracketLinkAt))

\* The patterns searched without the "if not description" guard, so that
\* None reaches pattern.search and a TypeError is raised: a slip that C14
\* excludes.
extract_links_Unguarded(description) ==
  IF IsNone(description) THEN [raised |-> "TypeError"]
  ELSE ExtractFrom(The(description))

\* extract_links(description)
extract_links(description) ==
  IF ~Truthy(description) THEN ExtractedLinks(None, None, None)
  ELSE ExtractFrom(The(description))

\* https?://[^\s\)]+ (no flags) at position i: the position of the last
\* character of the match, or 0.
UrlEndAt(s, i) ==
  IF ~LitAt(s, i, Str_http) THEN 0
  ELSE Bind(IF At(s, i+4) = "s" THEN i+5 ELSE i+4, LAMBDA u :
    IF ~LitAt(s, u, Str_SchemeSep) THEN 0
    ELSE Bind(RunEnd(s, u+3, IsUrlChar), LAMBDA e :
      IF e >= u+3 THEN e ELSE 0))

\* url_pattern.findall(description) from position i on: the matches, left to
\* right, each search resuming after the previous match.
RECURSIVE FindAllFrom(_, _)
FindAllFrom(s, i) ==
  Bind({h \in i..Len(s) : UrlEndAt(s, h) > 0}, LAMBDA hits :
    IF hits = {} THEN <<>>
    ELSE Bind(UrlEndAt(s, Leftmost(hits)), LAMBDA e :
      <<SubSeq(s, Leftmost(hits), e)>> \o FindAllFrom(s, e+1)))

\* extract_all_links(description)
extract_all_links(description) ==
  IF ~Truthy(description) THEN <<>> ELSE FindAllFrom(The(description), 1)

(***************************************************************************)
(* GitComplianceService                                                    *)
(***************************************************************************)
\* check_commit_compliance(commit_title)
check_commit_compliance(commit_title) == check_compliance(commit_title)

\* check_mr_compliance(mr_title, mr_description): the returned dict.
check_mr_compliance(mr_title, mr_description) ==
  [compliance |-> check_compliance(mr_title),
   links |-> IF Truthy(mr_description)
               THEN Some(extract_links(mr_description))
               ELSE None]

(***************************************************************************)
(* The requests.  A caller composes a title and a description and then     *)
(* calls the service.  The inputs are the well-formed request              *)
(*   fix: aaaaaaaaaaaa (Taiga #PJ2-45)                                     *)
(* made without a description (the default of check_mr_compliance), and    *)
(* every request that differs from it in at most MaxEdits parts of the     *)
(* title or in at most MaxEdits parts of the description; a description,   *)
(* when one is passed, declares the three links unless its lines are       *)
(* changed too.                                                            *)
(***************************************************************************)
MaxEdits == 2

Filler(n) == [i \in 1..n |-> "a"]

RECURSIVE Concat(_)
Concat(parts) == IF parts = <<>> THEN <<>> ELSE Head(parts) \o Concat(Tail(parts))

\* The parts of a title, in order; the first option of each is the
\* well-formed one.
TitleParts == <<
  \* 1: before the type
  << <<>>, <<" ", US>>, <<"-">> >>,
  \* 2: the type
  << Str_fix, <<"F","I","X">>, Str_ci, <<"f","o","o">>, <<>> >>,
  \* 3: the colon
  << <<":">>, <<>> >>,
  \* 4: after the colon
  << <<" ">>, <<>>, <<" ", VT>>, <<"\n">> >>,
  \* 5: the summary
  << Filler(MinSummaryLen + 2), <<>>,
     Filler(MinSummaryLen - 1), Filler(MinSummaryLen),
     Filler(MaxSummaryLen), Filler(MaxSummaryLen + 1),
     Filler(MinSummaryLen - 2) \o <<" ">> \o Filler(1),
     Filler(MinSummaryLen) \o <<"\n">> \o Filler(1),
     Filler(2) \o <<" ","(","T","a","i","g","a"," ","#","Q","-","7",")"," ">> \o Filler(2) >>,
  \* 6: after the summary
  << <<" ">>, <<>>, <<"\n">> >>,
  \* 7: the opening parenthesis
  << <<"(">>, <<>> >>,
  \* 8: the keyword
  << Str_Taiga, Str_taiga, <<"t","A","i","G","A">>, <<"T","a","g">>, <<>> >>,
  \* 9: after the keyword
  << <<" ">>, <<>>, <<"\t", GS>> >>,
  \* 10: the hash sign
  << <<"#">>, <<>> >>,
  \* 11: the project
  << <<"P","J","2">>, <<"p","J","2">>, <<>>, <<"P","_","J">> >>,
  \* 12: the dash
  << <<"-">>, <<>> >>,
  \* 13: the ticket
  << <<"4","5">>, <<>>, <<"4","a">> >>,
  \* 14: the closing parenthesis
  << <<")">>, <<>> >>,
  \* 15: after the reference
  << <<>>, <<" ", FS>>, <<"x">> >>
>>

\* How the title is passed: as composed, "", or whitespace only.
TitleModes == <<"composed", "empty", "blank">>
Str_Blank == <<" ", "\t", "\n", VT, "\f", "\r", FS, GS, RS, US>>

Str_TicketLabel == <<"T","i","c","k","e","t"," ","L","i","n","k",":"," ">>
Str_DocLabel == <<"D","o","c","u","m","e","n","t","a","t","i","o","n"," ","L","i","n","k",":"," ">>
Str_TestingLabel == <<"T","e","s","t","i","n","g"," ","L","i","n","k",":"," ">>
Url(host, path) == <<"h","t","t","p",":","/","/", host, "/", path>>
Urls(host, path) == <<"h","t","t","p","s",":","/","/", host, "/", path>>
Markdown(display, url) == <<"[">> \o display \o <<"]","(">> \o url \o <<")">>
Bracket(url) == <<"[">> \o url \o <<"]">>

\* The lines of a description, in order; the first option of each is the
\* one of the well-formed description.
DescriptionParts == <<
  \* 1: the ticket link
  << Str_TicketLabel \o Markdown(<<"T">>, Urls("t", "1")) \o <<"\n">>,
     <<>>,
     Str_TicketLabel \o Urls("t", "1") \o <<"\n">>,
     <<"n","o","t","e","\n">>,
     Str_TicketLabel \o Bracket(Urls("t", "1")) \o <<"\n">>,
     Str_TicketLabel \o Markdown(<<"T">>, Urls("t", "1") \o <<"?","a","=","1","#","f"," ", RS>>) \o <<"\n">>,
     Str_TicketLabel \o Markdown(<<"T">>, Urls("t", "1") \o <<"_","(","b",")">>) \o <<"\n">>,
     Str_TicketLabel \o Urls("t", "1") \o <<"\n">>
       \o Str_TicketLabel \o Markdown(<<"U">>, Urls("t", "2")) \o <<"\n">> >>,
  \* 2: more text after the ticket link
  << <<>>,
     Str_TicketLabel \o Markdown(<<"U">>, Urls("t", "2")) \o <<"\n">>,
     <<"s","e","e"," ">> \o Urls("t", "1") \o <<VT, "\n">>,
     <<"(">> \o Url("t", "1") \o Urls("u", "2") \o <<")"," ">> \o Str_http \o Str_SchemeSep \o <<"\n">> >>,
  \* 3: the documentation link
  << Str_DocLabel \o Markdown(<<"D">>, Url("d", "2")) \o <<"\n">>,
     <<>>,
     Str_DocLabel \o Bracket(Url("d", "2")) \o <<"\n">>,
     Str_DocLabel \o Url("d", "2") \o <<"\n">> >>,
  \* 4: the testing link
  << Str_TestingLabel \o Bracket(Urls("x", "3")),
     <<>>,
     Str_TestingLabel \o Markdown(<<"X">>, Urls("x", "3")),
     Str_TestingLabel \o Urls("x", "3"),
     Str_TestingLabel \o Bracket(Urls("x", "3")) \o <<"\n">>
       \o Str_TestingLabel \o Bracket(Urls("x", "4")) >>
>>

\* How the description is passed: not at all (None), as composed, or "".
DescriptionModes == <<"absent", "text", "empty">>

NTitle == Len(TitleParts)
NDesc == Len(DescriptionParts)
TitleModeSlot == NTitle + 1
DescriptionModeSlot == NTitle + 1 + NDesc + 1
Slots == 1..DescriptionModeSlot
TitleSlots == 1..TitleModeSlot
DescSlot(i) == TitleModeSlot + i

NumOptions(i) ==
  IF i <= NTitle THEN Len(TitleParts[i])
  ELSE IF i = TitleModeSlot THEN Len(TitleModes)
  ELSE IF i < DescriptionModeSlot THEN Len(DescriptionParts[i - TitleModeSlot])
  ELSE Len(DescriptionModes)

TitleOf(p) ==
  IF TitleModes[p[TitleModeSlot]] = "empty" THEN <<>>
  ELSE IF TitleModes[p[TitleModeSlot]] = "blank" THEN Str_Blank
  ELSE Concat([i \in 1..NTitle |-> TitleParts[i][p[i]]])

DescriptionOf(p) ==
  IF DescriptionModes[p[DescriptionModeSlot]] = "absent" THEN None
  ELSE IF DescriptionModes[p[DescriptionModeSlot]] = "empty" THEN Some(<<>>)
  ELSE Some(Concat([i \in 1..NDesc |-> DescriptionParts[i][p[DescSlot(i)]]]))

Edited(p) == {i \in Slots : p[i] # 1}

(***************************************************************************)
(* State: the request being made (pick names the option of each part,      *)
(* title and description are the arguments), the last call, and what it    *)
(* returned.  The service itself keeps no state between calls.             *)
(***************************************************************************)
VARIABLES pick, title, description, call, compliance, links, urls

vars == <<pick, title, description, call, compliance, links, urls>>

Init ==
  /\ pick = [i \in Slots |-> 1]
  /\ title = TitleOf(pick)
  /\ description = DescriptionOf(pick)
  /\ call = "none"
  /\ compliance = None
  /\ links = None
  /\ urls = <<>>

\* The caller changes one part of the request before calling: parts of the
\* title or parts of the description, in the order of the parts.
Edit(i, k) ==
  /\ call = "none"
  /\ Cardinality(Edited(pick)) < MaxEdits
  /\ \A j \in Edited(pick) : j < i /\ (j \in TitleSlots <=> i \in TitleSlots)
  /\ pick' = [pick EXCEPT ![i] = k]
  /\ title' = TitleOf(pick')
  /\ description' = DescriptionOf(pick')
  /\ UNCHANGED <<call, compliance, links, urls>>

\* service.check_commit_compliance(title)
CheckCommit ==
  /\ call = "none"
  /\ call' = "check_commit_compliance"
  /\ compliance' = Some(check_commit_compliance(title))
  /\ links' = None
  /\ urls' = <<>>
  /\ UNCHANGED <<pick, title, description>>

\* service.check_mr_compliance(title, description)
CheckMr ==
  /\ call = "none"
  /\ call' = "check_mr_compliance"
  /\ \E r \in {check_mr_compliance(title, description)} :
       /\ compliance' = Some(r.compliance)
       /\ links' = r.links
  /\ urls' = <<>>
  /\ UNCHANGED <<pick, title, description>>

\* service.link_extractor.extract_links(description)
ExtractLinks ==
  /\ call = "none"
  /\ call' = "extract_links"
  /\ links' = Some(extract_links(description))
  /\ compliance' = None
  /\ urls' = <<>>
  /\ UNCHANGED <<pick, title, description>>

\* service.link_extractor.extract_all_links(description)
ExtractAllLinks ==
  /\ call = "none"
  /\ call' = "extract_all_links"
  /\ urls' = extract_all_links(description)
  /\ compliance' = None
  /\ links' = None
  /\ UNCHANGED <<pick, title, description>>

\* The caller is done with the returned value; nothing of the call is kept.
Return ==
  /\ call # "none"
  /\ call' = "none"
  /\ compliance' = None
  /\ links' = None
  /\ urls' = <<>>
  /\ UNCHANGED <<pick, title, description>>

Next ==
  \/ \E i \in Slots : \E k \in 2..NumOptions(i) : Edit(i, k)
  \/ CheckCommit
  \/ CheckMr
  \/ ExtractLinks
  \/ ExtractAllLinks
  \/ Return

Spec == Init /\ [][Next]_vars

(***************************************************************************)
(* Properties.  A check is a call that returns a ComplianceResult; the     *)
(* structural match is the one check_compliance makes, on the title with   *)
(* its leading and trailing whitespace removed.                            *)
(***************************************************************************)
IsCheck == call \in {"check_commit_compliance", "check_mr_compliance"}
Outcome == The(compliance)
Matched == TITLE_PATTERN_match(Strip(title))
HasError(e) == \E i \in DOMAIN Outcome.errors : Outcome.errors[i] = e
IsBlank(s) == \A i \in DOMAIN s : s[i] \in Whitespace

\* C1: when the title matches the grammar with a recognized type, the
\* outcome is COMPLIANT exactly when the trimmed summary has 10 to 100
\* characters; below 10 the only error is "too short", above 100 the only
\* error is "too long".
C1_SummaryLengthDecides ==
  IsCheck =>
    LET m == Matched IN
    (IsSome(m) /\ TypeRecognized(The(m).type)) =>
      LET len == Len(Strip(The(m).summary)) IN
      /\ Outcome.status = COMPLIANT <=> (len >= 10 /\ len <= 100)
      /\ len < 10 => /\ Outcome.status = NON_COMPLIANT
                     /\ Outcome.errors = <<ErrSummaryTooShort>>
      /\ len > 100 => /\ Outcome.status = NON_COMPLIANT
                      /\ Outcome.errors = <<ErrSummaryTooLong>>

\* A summary of exactly 100 characters was accepted.
C1_Witness ==
  /\ IsCheck
  /\ IsSome(Matched)
  /\ Len(Strip(The(Matched).summary)) = 100
  /\ Outcome.status = COMPLIANT

\* C2: every check returns an outcome in which is_valid, status COMPLIANT,
\* no errors and no suggestions all hold or all fail together.
C2_OutcomeConsistent ==
  IsCheck =>
    /\ IsSome(compliance)
    /\ Outcome.status \in {COMPLIANT, NON_COMPLIANT}
    /\ Outcome.is_valid <=> Outcome.status = COMPLIANT
    /\ Outcome.is_valid <=> Outcome.errors = <<>>
    /\ Outcome.is_valid <=> Outcome.suggestions = <<>>

\* A rejected title came back with several errors and suggestions.
C2_Witness ==
  /\ IsCheck
  /\ Outcome.status = NON_COMPLIANT
  /\ Len(Outcome.errors) >= 2
  /\ Len(Outcome.suggestions) >= 2

\* C3: the outcome carries parsed fields exactly when the structural match
\* succeeded, and then they are the four captured groups, also when the
\* type or the summary length is rejected afterwards.
C3_ParsedIffMatched ==
  IsCheck =>
    /\ IsSome(Outcome.parsed_data) <=> IsSome(Matched)
    /\ IsSome(Outcome.parsed_data) =>
         /\ DOMAIN The(Outcome.parsed_data) = {"type", "summary", "project", "ticket"}
         /\ Outcome.parsed_data = Matched

\* A title with a summary that is too long was rejected with its fields.
C3_Witness ==
  /\ IsCheck
  /\ ~Outcome.is_valid
  /\ IsSome(Outcome.parsed_data)
  /\ Len(The(Outcome.parsed_data).summary) > 100

\* The string s is, from its first to its last character, the fields f laid
\* out as the grammar says:
\*   <type>:<spaces><summary><spaces>(Taiga<spaces>#<project>-<ticket>)
Spans(s, f) ==
  LET n == Len(f.type)
      tk == Len(s) - Len(f.ticket)
      h == tk - 2 - Len(f.project)
      e == Len(f.summary)
  IN  /\ n >= 1 /\ e >= 1 /\ Len(f.project) >= 1 /\ Len(f.ticket) >= 1
      /\ LitAt(s, 1, f.type)
      /\ At(s, n+1) = ":"
      /\ At(s, Len(s)) = ")"
      /\ LitAt(s, tk, f.ticket)
      /\ At(s, tk-1) = "-"
      /\ LitAt(s, h+1, f.project)
      /\ At(s, h) = "#"
      /\ \E a \in (n+3)..Len(s) :
           /\ \A k \in (n+2)..(a-1) : IsSpace(s[k])
           /\ LitAt(s, a, f.summary)
           /\ \E q \in (a+e+1)..(h-2) :
                /\ At(s, q) = "("
                /\ \A k \in (a+e)..(q-1) : IsSpace(s[k])
                /\ LitAtI(s, q+1, Str_Taiga)
                /\ q + 6 < h
                /\ \A k \in (q+6)..(h-1) : IsSpace(s[k])

\* C4 (as amended): a title is parsed only when the whole input, once its
\* leading and trailing whitespace is removed, is the grammar from its
\* first to its last character.
C4_TrimmedTitleSpanned ==
  (IsCheck /\ IsSome(Outcome.parsed_data)) =>
    Spans(Strip(title), The(Outcome.parsed_data))

\* C4 (as claimed): a title is parsed only when the whole input string is
\* the grammar from its first to its last character.
C4_WholeInputSpanned ==
  (IsCheck /\ IsSome(Outcome.parsed_data)) =>
    Spans(title, The(Outcome.parsed_data))

\* A title with whitespace around it was parsed.
C4_Witness ==
  /\ IsCheck
  /\ IsSome(Outcome.parsed_data)
  /\ title # Strip(title)

\* C5: a title that matches with a type outside the recognized set gets
\* exactly the invalid-type error and one suggestion, with its fields, and
\* no summary length error whatever the summary length.
C5_UnrecognizedTypeStops ==
  IsCheck =>
    LET m == Matched IN
    (IsSome(m) /\ ~InValidTypes(LowerStr(The(m).type))) =>
      Outcome = ComplianceResult(NON_COMPLIANT, FALSE,
                  <<ErrInvalidCommitType(LowerStr(The(m).type))>>,
                  <<SugValidTypes>>, m)

\* An unrecognized type with a summary shorter than 10 was checked.
C5_Witness ==
  /\ IsCheck
  /\ IsSome(Matched)
  /\ ~InValidTypes(LowerStr(The(Matched).type))
  /\ Len(Strip(The(Matched).summary)) < 10
  /\ Len(Outcome.errors) = 1

\* C6: an empty or whitespace-only title gets exactly the empty-title
\* error, one suggestion and no parsed fields.
C6_BlankTitle ==
  (IsCheck /\ IsBlank(title)) =>
    Outcome = ComplianceResult(NON_COMPLIANT, FALSE, <<ErrEmptyTitle>>,
                               <<SugFormat>>, None)

\* A whitespace-only title was checked.
C6_Witness ==
  /\ IsCheck
  /\ title # <<>>
  /\ IsBlank(title)
  /\ Outcome.errors = <<ErrEmptyTitle>>

\* The title written in one letter case where the claim says case does not
\* matter: its first run of letters (after any leading whitespace) in lower
\* case, and the word after an opening parenthesis spelled "Taiga" when it
\* is that word in any case.
CanonCase(s) ==
  LET a == CHOOSE j \in 1..(Len(s)+1) :
             /\ At(s, j) \notin Whitespace
             /\ \A k \in 1..(j-1) : s[k] \in Whitespace
      n == CHOOSE j \in (a-1)..Len(s) :
             /\ At(s, j+1) \notin (Lower \cup Upper)
             /\ \A k \in a..j : s[k] \in (Lower \cup Upper)
  IN  [i \in 1..Len(s) |->
        IF a <= i /\ i <= n THEN LowerChar(s[i])
        ELSE IF \E j \in (i-4)..i : At(s, j-1) = "(" /\ LitAtI(s, j, Str_Taiga)
          THEN Str_Taiga[i + 1 - (CHOOSE j \in (i-4)..i :
                                    At(s, j-1) = "(" /\ LitAtI(s, j, Str_Taiga))]
          ELSE s[i]]

\* C7: the letter case of the type token and of the word "Taiga" does not
\* change the verdict or the errors; the parsed type is returned as it was
\* written, and is compared with the recognized types in lower case.
C7_CaseInsensitive ==
  IsCheck =>
    LET c == check_compliance(CanonCase(title))
        t == Strip(title)
    IN  /\ Outcome.status = c.status
        /\ Outcome.errors = c.errors
        /\ IsSome(Outcome.parsed_data) <=> IsSome(c.parsed_data)
        /\ IsSome(Outcome.parsed_data) =>
             LET f == The(Outcome.parsed_data)
                 g == The(c.parsed_data)
             IN  /\ f.type = SubSeq(t, 1, Len(f.type))
                 /\ g.type = LowerStr(f.type)
                 /\ g.summary = f.summary
                 /\ g.project = f.project
                 /\ g.ticket = f.ticket
                 /\ Outcome.status = COMPLIANT => InValidTypes(LowerStr(f.type))

\* An upper-case type with a mixed-case "Taiga" was accepted and the type
\* came back in upper case.
C7_Witness ==
  /\ IsCheck
  /\ Outcome.status = COMPLIANT
  /\ The(Outcome.parsed_data).type = <<"F", "I", "X">>
  /\ Contains(title, <<"t", "A", "i", "G", "A">>)

\* The title with the letters between its last "#" and the next "-" in
\* lower case.
ProjectLowered(s) ==
  LET hs == {i \in DOMAIN s : s[i] = "#"}
      h == IF hs = {} THEN 0 ELSE CHOOSE i \in hs : \A j \in hs : j <= i
      ds == {i \in DOMAIN s : i > h /\ s[i] = "-"}
      d == IF ds = {} THEN 0 ELSE CHOOSE i \in ds : \A j \in ds : i <= j
  IN  [i \in 1..Len(s) |->
        IF h > 0 /\ h < i /\ i < d THEN LowerChar(s[i]) ELSE s[i]]

\* C8 (as amended): a parsed project is a non-empty run of ASCII letters
\* and digits, returned as written, and the case-insensitive matching
\* covers it: writing the project in lower case changes neither the
\* verdict nor the errors.
C8_ProjectLettersAnyCase ==
  IsCheck =>
    LET c == check_compliance(ProjectLowered(title)) IN
    /\ c.status = Outcome.status
    /\ c.errors = Outcome.errors
    /\ IsSome(Outcome.parsed_data) =>
         LET f == The(Outcome.parsed_data) IN
         /\ f.project # <<>>
         /\ \A i \in DOMAIN f.project :
              f.project[i] \in (Upper \cup Lower \cup Digit)
         /\ IsSome(c.parsed_data)
         /\ The(c.parsed_data).project = LowerStr(f.project)

\* C8 (as claimed): a parsed project holds upper-case letters and digits
\* only.
C8_ProjectUpperOnly ==
  (IsCheck /\ IsSome(Outcome.parsed_data)) =>
    \A i \in DOMAIN The(Outcome.parsed_data).project :
      The(Outcome.parsed_data).project[i] \in (Upper \cup Digit)

\* A title whose project has a lower-case letter was accepted.
C8_Witness ==
  /\ IsCheck
  /\ Outcome.status = COMPLIANT
  /\ \E i \in DOMAIN The(Outcome.parsed_data).project :
       The(Outcome.parsed_data).project[i] \in Lower

\* The text from the last "(" of s to its end, when s ends with ")" and
\* the word after that "(" is "Taiga" in any case; empty otherwise.
FinalReference(s) ==
  LET qs == {i \in DOMAIN s : s[i] = "("}
      q == IF qs = {} THEN 0 ELSE CHOOSE i \in qs : \A j \in qs : j <= i
  IN  IF q > 0 /\ At(s, Len(s)) = ")" /\ LitAtI(s, q+1, Str_Taiga)
        THEN SubSeq(s, q, Len(s)) ELSE <<>>

\* The final Taiga reference lacks its "#", lacks its "-", or has an empty
\* project or an empty ticket number.
MalformedFinalReference(s) ==
  LET r == FinalReference(s) IN
  /\ r # <<>>
  /\ \/ ~Contains(r, <<"#">>)
     \/ ~Contains(r, <<"-">>)
     \/ Contains(r, <<"#", "-">>)
     \/ Contains(r, <<"-", ")">>)

\* C9 (as amended): a title whose final Taiga reference is malformed is
\* NON_COMPLIANT with no parsed fields; its errors name the Taiga format
\* unless a well-formed reference stands elsewhere in the title, and then
\* only the generic format error is given.
C9_MalformedReferenceRejected ==
  (IsCheck /\ MalformedFinalReference(Strip(title))) =>
    /\ Outcome.status = NON_COMPLIANT
    /\ IsNone(Outcome.parsed_data)
    /\ ~HasError(ErrTaigaNotFound)
    /\ HasError(ErrTaigaFormat) <=> ~TaigaRefSearch(Strip(title))

\* C9 (as claimed): a title whose final Taiga reference is malformed is
\* NON_COMPLIANT with no parsed fields and a Taiga error among its errors.
C9_TaigaErrorAlways ==
  (IsCheck /\ MalformedFinalReference(Strip(title))) =>
    /\ Outcome.status = NON_COMPLIANT
    /\ IsNone(Outcome.parsed_data)
    /\ HasError(ErrTaigaNotFound) \/ HasError(ErrTaigaFormat)

\* A reference with an empty project was rejected with the Taiga format
\* error.
C9_Witness ==
  /\ IsCheck
  /\ MalformedFinalReference(Strip(title))
  /\ Contains(FinalReference(Strip(title)), <<"#", "-">>)
  /\ HasError(ErrTaigaFormat)

\* C10 (as claimed): a merge-request check returns absent links exactly
\* when no description was given; any description that was given, the
\* empty one included, is run through the link extraction.
C10_LinksAbsentIffNoDescription ==
  call = "check_mr_compliance" => (IsNone(links) <=> IsNone(description))

\* A call has returned the links of a description that has text.
HasLinks == IsSome(links) /\ Truthy(description)
Text == The(description)
Extracted == The(links)

\* Where "<label> Link:" stands in s, and where it is followed by a
\* well-formed link of the category's shape.
LabelOccurrences(s, label) == {i \in 1..Len(s) : LabelAt(s, i, label) > 0}
Declarations(s, label, LinkAt(_, _, _)) ==
  {i \in LabelOccurrences(s, label) : IsSome(LinkAt(s, i, label))}
First(positions) == CHOOSE i \in positions : \A j \in positions : i <= j
Trimmed(o) == IF IsNone(o) THEN None ELSE Some(Strip(The(o)))

\* The link declared at the first occurrence of the label, if any.
FirstLabelLink(s, label, LinkAt(_, _, _)) ==
  IF LabelOccurrences(s, label) = {} THEN None
  ELSE Trimmed(LinkAt(s, First(LabelOccurrences(s, label)), label))

\* The link of the first occurrence of the label that declares one.
FirstDeclaredLink(s, label, LinkAt(_, _, _)) ==
  IF Declarations(s, label, LinkAt) = {} THEN None
  ELSE Trimmed(LinkAt(s, First(Declarations(s, label, LinkAt)), label))

\* C11 (as amended): each category gets the link of the first occurrence
\* of its label that is followed by a well-formed link; occurrences without
\* one are skipped, and text after that declaration never changes the
\* result: every shorter description that ends somewhere after it gives
\* the same link, every one that ends before it gives none.
C11_FirstDeclarationWins ==
  HasLinks =>
    /\ Extracted.ticket_link = FirstDeclaredLink(Text, Str_Ticket, MarkdownLinkAt)
    /\ Extracted.documentation_link
         = FirstDeclaredLink(Text, Str_Documentation, MarkdownLinkAt)
    /\ Extracted.testing_link = FirstDeclaredLink(Text, Str_Testing, BracketLinkAt)
    /\ \A c \in 0..Len(Text) :
         LET shorter == extract_links(Some(SubSeq(Text, 1, c))) IN
         /\ shorter.ticket_link \in {None, Extracted.ticket_link}
         /\ shorter.documentation_link \in {None, Extracted.documentation_link}
         /\ shorter.testing_link \in {None, Extracted.testing_link}

\* C11 (as claimed): when a label appears more than once, its category
\* gets the link declared at the first occurrence of the label.
C11_FirstLabelOccurrenceWins ==
  HasLinks =>
    /\ Cardinality(LabelOccurrences(Text, Str_Ticket)) > 1 =>
         Extracted.ticket_link = FirstLabelLink(Text, Str_Ticket, MarkdownLinkAt)
    /\ Cardinality(LabelOccurrences(Text, Str_Documentation)) > 1 =>
         Extracted.documentation_link
           = FirstLabelLink(Text, Str_Documentation, MarkdownLinkAt)
    /\ Cardinality(LabelOccurrences(Text, Str_Testing)) > 1 =>
         Extracted.testing_link = FirstLabelLink(Text, Str_Testing, BracketLinkAt)

\* Two well-formed ticket declarations were given and the first one won.
C11_Witness ==
  /\ HasLinks
  /\ Cardinality(Declarations(Text, Str_Ticket, MarkdownLinkAt)) > 1
  /\ Extracted.ticket_link = Some(Urls("t", "1"))

\* The next position from i on that holds the character c (0 if none).
NextChar(s, i, c) ==
  IF \E k \in i..Len(s) : s[k] = c
    THEN CHOOSE k \in i..Len(s) : s[k] = c /\ \A j \in i..(k-1) : s[j] # c
    ELSE 0

\* The parenthesis that closes the one opened at position o: the first
\* position after o up to which as many ")" as "(" are written from o on
\* (0 if the parenthesis is never closed).
ParenDepth(s, o, k) ==
  Cardinality({j \in o..k : s[j] = "("}) - Cardinality({j \in o..k : s[j] = ")"})
ClosingParen(s, o) ==
  IF \E k \in (o+1)..Len(s) : ParenDepth(s, o, k) = 0
    THEN CHOOSE k \in (o+1)..Len(s) :
           ParenDepth(s, o, k) = 0 /\ \A j \in (o+1)..(k-1) : ParenDepth(s, o, j) # 0
    ELSE 0

\* At position i stands "<label> Link:" followed by [<display>](<target>)
\* with a display that is not empty, a target that starts with http:// or
\* https:// and has something after it, and a ")" that closes the link.
MarkdownShapeAt(s, i, label) ==
  LET b == LabelAt(s, i, label)
      cb == NextChar(s, b+1, "]")
  IN  /\ b > 0 /\ At(s, b) = "["
      /\ cb > b+1
      /\ At(s, cb+1) = "("
      /\ SchemeAtI(s, cb+2) > 0
      /\ ClosingParen(s, cb+1) > SchemeAtI(s, cb+2)

\* The target of that link: all that is written between its "(" and the
\* ")" that closes it, parentheses written inside the target included.
MarkdownTargetAt(s, i, label) ==
  LET cb == NextChar(s, LabelAt(s, i, label) + 1, "]")
  IN  SubSeq(s, cb+2, ClosingParen(s, cb+1) - 1)

\* The whole target of the first declaration of the label that has the
\* markdown shape, without the whitespace around it.
FirstMarkdownTarget(s, label) ==
  LET shaped == {i \in LabelOccurrences(s, label) : MarkdownShapeAt(s, i, label)}
  IN  IF shaped = {} THEN None
      ELSE Some(Strip(MarkdownTargetAt(s, First(shaped), label)))

\* C12: for a ticket or documentation declaration <label> [<display>](<url>)
\* the link returned is the whole target between "(" and the ")" that
\* closes it, query string and fragment included, without the whitespace
\* around it, and never a shorter prefix of it.
C12_WholeTargetReturned ==
  HasLinks =>
    /\ IsSome(FirstMarkdownTarget(Text, Str_Ticket)) =>
         Extracted.ticket_link = FirstMarkdownTarget(Text, Str_Ticket)
    /\ IsSome(FirstMarkdownTarget(Text, Str_Documentation)) =>
         Extracted.documentation_link = FirstMarkdownTarget(Text, Str_Documentation)

\* At position i stands "<label> Link:" followed by a URL without brackets.
BareUrlAt(s, i, label) ==
  LabelAt(s, i, label) > 0 /\ SchemeAtI(s, LabelAt(s, i, label)) > 0

\* At position i stands "<label> Link:" followed by [<url>] and no (<url>).
BracketOnlyAt(s, i, label) ==
  LET b == LabelAt(s, i, label)
      cb == NextChar(s, b+1, "]")
  IN  /\ b > 0 /\ At(s, b) = "["
      /\ SchemeAtI(s, b+1) > 0
      /\ cb > 0
      /\ At(s, cb+1) # "("

\* At position i stands "<label> Link:" followed by [<display>](<url>) with
\* a display that does not start with http:// or https://.
DisplayNotUrlAt(s, i, label) ==
  LET b == LabelAt(s, i, label)
      cb == NextChar(s, b+1, "]")
  IN  /\ b > 0 /\ At(s, b) = "["
      /\ SchemeAtI(s, b+1) = 0
      /\ cb > 0
      /\ At(s, cb+1) = "("
      /\ SchemeAtI(s, cb+2) > 0

\* C13: a category whose label is only followed by a shape that is not its
\* own stays absent: a bare URL for any category, [<url>] without (<url>)
\* for Ticket and Documentation, [<display>](<url>) with a display that is
\* not a URL for Testing.
C13_OtherShapesIgnored ==
  HasLinks =>
    /\ ( /\ LabelOccurrences(Text, Str_Ticket) # {}
         /\ \A i \in LabelOccurrences(Text, Str_Ticket) :
              BareUrlAt(Text, i, Str_Ticket) \/ BracketOnlyAt(Text, i, Str_Ticket) )
       => IsNone(Extracted.ticket_link)
    /\ ( /\ LabelOccurrences(Text, Str_Documentation) # {}
         /\ \A i \in LabelOccurrences(Text, Str_Documentation) :
              \/ BareUrlAt(Text, i, Str_Documentation)
              \/ BracketOnlyAt(Text, i, Str_Documentation) )
       => IsNone(Extracted.documentation_link)
    /\ ( /\ LabelOccurrences(Text, Str_Testing) # {}
         /\ \A i \in LabelOccurrences(Text, Str_Testing) :
              BareUrlAt(Text, i, Str_Testing) \/ DisplayNotUrlAt(Text, i, Str_Testing) )
       => IsNone(Extracted.testing_link)

\* A Testing label followed by [X](<url>) left testing_link absent, next to
\* a ticket link that was found.
C13_Witness ==
  /\ HasLinks
  /\ \E i \in LabelOccurrences(Text, Str_Testing) : DisplayNotUrlAt(Text, i, Str_Testing)
  /\ IsNone(Extracted.testing_link)
  /\ IsSome(Extracted.ticket_link)

\* C14: extract_links called with no description (None) or with the empty
\* one returns links whose three fields are all absent, and raises nothing.
C14_NoDescriptionNoLinks ==
  (call = "extract_links" /\ ~Truthy(description)) =>
    /\ IsSome(links)
    /\ Extracted = ExtractedLinks(None, None, None)

\* extract_links was called with None.
C14_Witness ==
  /\ call = "extract_links"
  /\ IsNone(description)
  /\ IsSome(links)
  /\ IsNone(Extracted.ticket_link)

\* The characters that end a URL, and the words of a text that they
\* delimit: a word starts after a delimiter (or at the start of the text)
\* and runs to the character before the next delimiter (or to the end).
IsDelimiter(c) == c \in Whitespace \cup {")"}
WordStarts(s) ==
  {a \in 1..Len(s) : ~IsDelimiter(s[a]) /\ (a = 1 \/ IsDelimiter(s[a-1]))}
WordEnd(s, a) ==
  CHOOSE e \in a..Len(s) :
    /\ \A k \in a..e : ~IsDelimiter(s[k])
    /\ e = Len(s) \/ IsDelimiter(s[e+1])

\* The places of the word from a to e where http:// or https:// is written,
\* in lower case.
SchemeStarts(s, a, e) ==
  {k \in a..e : \/ LitAt(s, k, <<"h","t","t","p",":","/","/">>)
                \/ LitAt(s, k, <<"h","t","t","p","s",":","/","/">>)}

\* The token of the word that starts at a, as a sequence of none or one:
\* the word from the first place in it where a scheme is written, whatever
\* follows the scheme, nothing included.
TokenOfWord(s, a) ==
  LET e == WordEnd(s, a)
  IN  IF SchemeStarts(s, a, e) = {} THEN <<>>
      ELSE <<SubSeq(s, First(SchemeStarts(s, a, e)), e)>>

\* The tokens of the words that start at the given positions, in text order.
RECURSIVE TokensOfWords(_, _)
TokensOfWords(s, starts) ==
  IF starts = {} THEN <<>>
  ELSE TokenOfWord(s, First(starts)) \o TokensOfWords(s, starts \ {First(starts)})

\* A token that is more than its scheme: at least one character follows
\* the "//".
HasRest(t) ==
  Len(t) > (IF LitAt(t, 1, <<"h","t","t","p","s",":","/","/">>) THEN 8 ELSE 7)

\* The URL of the word that starts at a, as a sequence of none or one: its
\* token, when something follows the scheme.
UrlOfWord(s, a) ==
  IF TokenOfWord(s, a) # <<>> /\ HasRest(TokenOfWord(s, a)[1])
    THEN TokenOfWord(s, a) ELSE <<>>

\* The URLs of the words that start at the given positions, in text order.
RECURSIVE UrlsOfWords(_, _)
UrlsOfWords(s, starts) ==
  IF starts = {} THEN <<>>
  ELSE UrlOfWord(s, First(starts)) \o UrlsOfWords(s, starts \ {First(starts)})

\* C16 as amended: extract_all_links returns, in order of appearance and
\* with duplicates kept, every longest piece of the description that starts
\* with http:// or https://, has at least one character after the scheme
\* and runs up to the next whitespace or ")"; a scheme with nothing after
\* it before the whitespace, the ")" or the end of the text is not
\* returned; labels and brackets play no part in it; with no description
\* or an empty one it returns the empty sequence.
C16_AllUrlsInOrder ==
  call = "extract_all_links" =>
    urls = IF Truthy(description) THEN UrlsOfWords(Text, WordStarts(Text)) ELSE <<>>

\* C16 as claimed: every longest piece that starts with http:// or
\* https:// and runs up to the next whitespace or ")" is returned, the
\* piece that is a scheme alone included.
C16_EveryTokenReturned ==
  call = "extract_all_links" =>
    urls = IF Truthy(description) THEN TokensOfWords(Text, WordStarts(Text)) ELSE <<>>

\* A description with "http://" alone before a line end gave four URLs and
\* none for the scheme alone; one was cut at ")" with the scheme written
\* inside it kept, one has the "]" that follows it.
C16_Witness ==
  /\ call = "extract_all_links"
  /\ Truthy(description)
  /\ Contains(Text, <<" ","h","t","t","p",":","/","/","\n">>)
  /\ Len(TokensOfWords(Text, WordStarts(Text))) = 5
  /\ Len(urls) = 4
  /\ urls[2] = Url("t", "1") \o Urls("u", "2")
  /\ urls[4] = Urls("x", "3") \o <<"]">>

\* A check of a title that is not blank has failed the structural match.
MatchFailed == IsCheck /\ ~IsBlank(title) /\ IsNone(Matched)

\* What each probe finds in the trimmed title s: <<errors, suggestions>>,
\* both empty when the probe does not fire.
TypeFinding(s) ==
  IF TypePrefixEnd(s) = 0
    THEN << <<ErrNoTypePrefix>>, <<SugNoTypePrefix>> >>
  ELSE IF ~InValidTypes(LowerStr(SubSeq(s, 1, TypePrefixEnd(s))))
    THEN << <<ErrInvalidType(LowerStr(SubSeq(s, 1, TypePrefixEnd(s))))>>,
            <<SugValidTypes>> >>
  ELSE << <<>>, <<>> >>
SpaceFinding(s) ==
  IF NoSpaceAfterColon(s)
    THEN << <<ErrNoSpaceAfterColon>>, <<SugNoSpaceAfterColon>> >>
    ELSE << <<>>, <<>> >>
TaigaFinding(s) ==
  IF TaigaAbsent(s) THEN << <<ErrTaigaNotFound>>, <<SugTaigaNotFound>> >>
  ELSE IF ~TaigaRefSearch(s) THEN << <<ErrTaigaFormat>>, <<SugTaigaFormat>> >>
  ELSE << <<>>, <<>> >>

\* C17: after a failed match the errors are what the type probe, the space
\* probe and the Taiga probe find, all of them and in that order, each with
\* its one suggestion; the generic error is given exactly when no probe
\* fired, and then it is the only error and comes with two suggestions.
C17_ProbesAccumulate ==
  MatchFailed =>
    LET s == Strip(title)
        found == TypeFinding(s)[1] \o SpaceFinding(s)[1] \o TaigaFinding(s)[1]
        advice == TypeFinding(s)[2] \o SpaceFinding(s)[2] \o TaigaFinding(s)[2]
    IN  /\ HasError(ErrGeneric) <=> found = <<>>
        /\ found # <<>> => /\ Outcome.errors = found
                           /\ Outcome.suggestions = advice
                           /\ Len(Outcome.suggestions) = Len(Outcome.errors)
        /\ found = <<>> => /\ Outcome.errors = <<ErrGeneric>>
                           /\ Outcome.suggestions = <<SugGenericFormat, SugGenericExample>>

\* An invalid type and a missing space were both reported, in that order.
C17_Witness ==
  /\ MatchFailed
  /\ Outcome.errors = <<ErrInvalidType(<<"f", "o", "o">>), ErrNoSpaceAfterColon>>
  /\ Len(Outcome.suggestions) = 2

\* The length of the run of letters that s starts with.
LeadingLetters(s) ==
  CHOOSE j \in 0..Len(s) :
    /\ At(s, j+1) \notin (Lower \cup Upper)
    /\ \A k \in 1..j : s[k] \in (Lower \cup Upper)

\* The character right after the first ":" of s, EOS when there is none.
AfterFirstColon(s) ==
  IF NextChar(s, 1, ":") = 0 THEN EOS ELSE At(s, NextChar(s, 1, ":") + 1)

\* C18 (as amended): after a failed match the missing-space error is given
\* exactly when the title starts with a type token of letters followed by
\* ":" and the character right after that ":" is not whitespace; it is
\* never given together with the error that the type prefix is missing.
C18_SpaceErrorNeedsTypeToken ==
  MatchFailed =>
    LET s == Strip(title)
        n == LeadingLetters(s)
    IN  /\ HasError(ErrNoSpaceAfterColon)
             <=> ( /\ n >= 1
                   /\ At(s, n+1) = ":"
                   /\ n + 2 <= Len(s)
                   /\ s[n+2] \notin Whitespace )
        /\ HasError(ErrNoSpaceAfterColon) =>
             /\ AfterFirstColon(s) \notin Whitespace \cup {EOS}
             /\ ~HasError(ErrNoTypePrefix)

\* C18 (as claimed): after a failed match the missing-space error is given
\* whenever the character right after the first ":" of the title is not
\* whitespace, whether or not the title starts with a type token.
C18_SpaceErrorForAnyFirstColon ==
  MatchFailed =>
    (AfterFirstColon(Strip(title)) \notin Whitespace \cup {EOS}
       => HasError(ErrNoSpaceAfterColon))

\* The missing space was the only finding.
C18_Witness ==
  /\ MatchFailed
  /\ Outcome.errors = <<ErrNoSpaceAfterColon>>
  /\ AfterFirstColon(Strip(title)) = "a"

\* Where a well-formed (Taiga #<project>-<ticket>) starts in s.
References(s) == {q \in 1..Len(s) : IsSome(TaigaRefAt(s, q))}
LastReference(s) == CHOOSE q \in References(s) : \A r \in References(s) : r <= q

\* s is <type>:<spaces><text><spaces><reference>, with a text that holds
\* at least one more well-formed reference and no line break.
SeveralReferences(s) ==
  /\ Cardinality(References(s)) > 1
  /\ The(TaigaRefAt(s, LastReference(s))).end = Len(s)
  /\ LeadingLetters(s) >= 1
  /\ At(s, LeadingLetters(s) + 1) = ":"
  /\ IsSpace(At(s, LeadingLetters(s) + 2))
  /\ IsSpace(At(s, LastReference(s) - 1))
  /\ ~Contains(Strip(SubSeq(s, LeadingLetters(s) + 2, LastReference(s) - 1)), <<"\n">>)

\* C19: a title with several well-formed references that ends with one is
\* matched with the project and ticket of the last one; all the text before
\* it, the earlier references included, is the summary, and it is this
\* whole summary whose length is checked.
C19_LastReferenceParsed ==
  (IsCheck /\ SeveralReferences(Strip(title))) =>
    LET s == Strip(title)
        last == LastReference(s)
        text == Strip(SubSeq(s, LeadingLetters(s) + 2, last - 1))
    IN  /\ IsSome(Outcome.parsed_data)
        /\ The(Outcome.parsed_data).project = The(TaigaRefAt(s, last)).project
        /\ The(Outcome.parsed_data).ticket = The(TaigaRefAt(s, last)).ticket
        /\ The(Outcome.parsed_data).summary = text
        /\ \A q \in References(s) \ {last} :
             Contains(text, SubSeq(s, q, The(TaigaRefAt(s, q)).end))
        /\ InValidTypes(LowerStr(The(Outcome.parsed_data).type)) =>
             (Outcome.status = COMPLIANT <=> (Len(text) >= 10 /\ Len(text) <= 100))

\* A title with two references was accepted: its summary is long enough
\* only with the earlier reference counted in.
C19_Witness ==
  /\ IsCheck
  /\ SeveralReferences(Strip(title))
  /\ Outcome.status = COMPLIANT
  /\ The(Outcome.parsed_data).project = <<"P", "J", "2">>
  /\ The(Outcome.parsed_data).summary
       = <<"a","a"," ","(","T","a","i","g","a"," ","#","Q","-","7",")"," ","a","a">>

=============================================================================
